---- MODULE Spec2Model ----
(***************************************************************************)
(* egui_term: the per-frame pipeline of TerminalView (src/src/lib.rs).     *)
(*                                                                         *)
(* One frame is one call of TerminalView::ui.  Its steps are modelled as   *)
(* consecutive actions driven by pc:                                       *)
(*   ui_begin -> focus -> resize -> process_input* -> show -> ui_end       *)
(*                                                                         *)
(* Numbers.  f32 values (wheel deltas, scroll_pixels, font size) are       *)
(* modelled as integers counting 1/Scale of a pixel, so that fractional    *)
(* deltas exist and ceil / trunc / % are real computations.  All values    *)
(* used are small enough that the f32 operations are exact.                *)
(* Strings are sequences of Unicode code points; as_bytes is the UTF-8     *)
(* encoding.                                                               *)
(***************************************************************************)
EXTENDS Integers, Sequences, FiniteSets, TLC

\* ---------------------------------------------------------------- bounds
MaxEvents ==
    2

MaxWheelLog ==
    3

MaxCols ==
    2

Scale ==
    2

\* Option<T>: None is the empty sequence, Some(x) the sequence of x
None ==
    << >>

Some(x) ==
    << x >>


\* ------------------------------------------------------- f32 arithmetic
Abs(x) ==
    IF x < 0 THEN -x ELSE x

\* f32::signum: 1.0 for +0.0 and positive, -1.0 for negative
Signum(x) ==
    IF x < 0 THEN -1 ELSE 1

\* f32::ceil of a non-negative value given in 1/Scale units, in whole units
CeilUnits(x) ==
    (x + Scale - 1) \div Scale

\* (a / b).trunc() for b > 0: truncation toward zero
TruncDiv(a, b) ==
    IF a < 0 THEN -((-a) \div b) ELSE a \div b

\* a % b on f32 (fmod): the result has the sign of the dividend
FRem(a, b) ==
    IF a < 0 THEN -((-a) % b) ELSE a % b

\* ------------------------------------------------------------- strings
\* char::encode_utf8 / str::as_bytes for one code point
Utf8(c) ==
    IF c < 128 THEN << c >>
    ELSE IF c < 2048 THEN << 192 + (c \div 64), 128 + (c % 64) >>
    ELSE IF c < 65536 THEN
        << 224 + (c \div 4096), 128 + ((c \div 64) % 64), 128 + (c % 64) >>
    ELSE
        << 240 + (c \div 262144), 128 + ((c \div 4096) % 64),
           128 + ((c \div 64) % 64), 128 + (c % 64) >>

RECURSIVE AsBytes(_)
AsBytes(s) ==
    IF s = << >> THEN << >> ELSE Utf8(Head(s)) \o AsBytes(Tail(s))

\* ------------------------------------------------------ backend commands
Resize(size, font_measure) ==
    [cmd |-> "Resize", size |-> size, font_measure |-> font_measure]

Write(bytes) ==
    [cmd |-> "Write", bytes |-> bytes]

Scroll(lines) ==
    [cmd |-> "Scroll", lines |-> lines]

\* ----------------------------------------------------------- InputAction
BackendCall(c) ==
    [kind |-> "BackendCall", cmd |-> c]

Ignore ==
    [kind |-> "Ignore"]

\* ------------------------------------------------------ TerminalViewState
NoModifiers ==
    {}

DefaultState ==
    [is_dragged |-> FALSE, is_focused |-> FALSE, scroll_pixels |-> 0,
     keyboard_modifiers |-> NoModifiers]

\* m.data.get_temp::<TerminalViewState>(widget_id).unwrap_or_default()
unwrap_or_default(opt) ==
    IF opt = None THEN DefaultState ELSE opt[1]

\* ------------------------------------------------------------- bindings
\* BindingsLayout::get_action(input, modifiers, terminal_mode)
CharAction(c) ==
    [binding |-> "Char", c |-> c]

EscAction(seq) ==
    [binding |-> "Esc", seq |-> seq]

NoBinding ==
    [binding |-> "None"]

get_action(key, modifiers, term_mode) ==
    CASE key = "Enter" /\ modifiers = {} -> CharAction(13)
      [] key = "C" /\ modifiers = {"ctrl"} -> CharAction(3)
      [] key = "ArrowUp" /\ modifiers = {} /\ "APP_CURSOR" \in term_mode ->
            EscAction(<< 27, 79, 65 >>)
      [] key = "ArrowUp" /\ modifiers = {} /\ "APP_CURSOR" \notin term_mode ->
            EscAction(<< 27, 91, 65 >>)
      [] OTHER -> NoBinding

\* ------------------------------------------------- handle_keyboard_event
\* handle_keyboard_event without the early return on a key release
handle_keyboard_event_no_release(event, term_mode) ==
    CASE event.type = "Text" -> BackendCall(Write(AsBytes(event.text)))
      [] event.type = "Key" ->
            LET binding_action ==
                    get_action(event.key, event.modifiers, term_mode)
            IN  CASE binding_action.binding = "Char" ->
                         BackendCall(Write(Utf8(binding_action.c)))
                  [] binding_action.binding = "Esc" ->
                         BackendCall(Write(AsBytes(binding_action.seq)))
                  [] OTHER -> Ignore
      [] OTHER -> Ignore

\* handle_keyboard_event with text events dropped in application-cursor mode
handle_keyboard_event_text_by_mode(event, term_mode) ==
    CASE event.type = "Text" ->
            IF "APP_CURSOR" \in term_mode THEN Ignore
            ELSE BackendCall(Write(AsBytes(event.text)))
      [] event.type = "Key" ->
            IF ~event.pressed THEN Ignore
            ELSE LET binding_action ==
                         get_action(event.key, event.modifiers, term_mode)
                 IN  CASE binding_action.binding = "Char" ->
                              BackendCall(Write(Utf8(binding_action.c)))
                       [] binding_action.binding = "Esc" ->
                              BackendCall(Write(AsBytes(binding_action.seq)))
                       [] OTHER -> Ignore
      [] OTHER -> Ignore

\* handle_keyboard_event looking bindings up under the default terminal mode
handle_keyboard_event_default_mode(event, term_mode) ==
    CASE event.type = "Text" -> BackendCall(Write(AsBytes(event.text)))
      [] event.type = "Key" ->
            IF ~event.pressed THEN Ignore
            ELSE LET binding_action ==
                         get_action(event.key, event.modifiers, {})
                 IN  CASE binding_action.binding = "Char" ->
                              BackendCall(Write(Utf8(binding_action.c)))
                       [] binding_action.binding = "Esc" ->
                              BackendCall(Write(AsBytes(binding_action.seq)))
                       [] OTHER -> Ignore
      [] OTHER -> Ignore

handle_keyboard_event(event, term_mode) ==
    CASE event.type = "Text" -> BackendCall(Write(AsBytes(event.text)))
      [] event.type = "Key" ->
            IF ~event.pressed THEN Ignore
            ELSE LET binding_action ==
                         get_action(event.key, event.modifiers, term_mode)
                 IN  CASE binding_action.binding = "Char" ->
                              BackendCall(Write(Utf8(binding_action.c)))
                       [] binding_action.binding = "Esc" ->
                              BackendCall(Write(AsBytes(binding_action.seq)))
                       [] OTHER -> Ignore
      [] OTHER -> Ignore

\* handle_mouse_wheel whose pixel branch drops the remainder instead of
\* carrying it to the next event
handle_mouse_wheel_no_carry(st, font_size, unit, dy) ==
    CASE unit = "Line" ->
            LET lines == Signum(dy) * CeilUnits(Abs(dy))
            IN  [action |-> BackendCall(Scroll(lines)), state |-> st]
      [] unit = "Point" ->
            LET acc   == 0 - dy
                lines == TruncDiv(acc, font_size)
                st2   == [st EXCEPT !.scroll_pixels = FRem(acc, font_size)]
            IN  [action |-> IF lines # 0 THEN BackendCall(Scroll(lines))
                            ELSE Ignore,
                 state |-> st2]
      [] OTHER -> [action |-> Ignore, state |-> st]

\* handle_mouse_wheel treating a page delta like a pixel delta
handle_mouse_wheel_page_as_point(st, font_size, unit, dy) ==
    CASE unit = "Line" ->
            LET lines == Signum(dy) * CeilUnits(Abs(dy))
            IN  [action |-> BackendCall(Scroll(lines)), state |-> st]
      [] unit \in {"Point", "Page"} ->
            LET acc   == st.scroll_pixels - dy
                lines == TruncDiv(acc, font_size)
                st2   == [st EXCEPT !.scroll_pixels = FRem(acc, font_size)]
            IN  [action |-> IF lines # 0 THEN BackendCall(Scroll(lines))
                            ELSE Ignore,
                 state |-> st2]
      [] OTHER -> [action |-> Ignore, state |-> st]

\* handle_mouse_wheel rounding the line count down instead of toward zero
handle_mouse_wheel_floor(st, font_size, unit, dy) ==
    CASE unit = "Line" ->
            LET lines == Signum(dy) * CeilUnits(Abs(dy))
            IN  [action |-> BackendCall(Scroll(lines)), state |-> st]
      [] unit = "Point" ->
            LET acc   == st.scroll_pixels - dy
                lines == acc \div font_size
                st2   == [st EXCEPT !.scroll_pixels = acc % font_size]
            IN  [action |-> IF lines # 0 THEN BackendCall(Scroll(lines))
                            ELSE Ignore,
                 state |-> st2]
      [] OTHER -> [action |-> Ignore, state |-> st]

\* handle_mouse_wheel whose line branch clears the pixel remainder
handle_mouse_wheel_line_resets(st, font_size, unit, dy) ==
    CASE unit = "Line" ->
            LET lines == Signum(dy) * CeilUnits(Abs(dy))
            IN  [action |-> BackendCall(Scroll(lines)),
                 state |-> [st EXCEPT !.scroll_pixels = 0]]
      [] unit = "Point" ->
            LET acc   == st.scroll_pixels - dy
                lines == TruncDiv(acc, font_size)
                st2   == [st EXCEPT !.scroll_pixels = FRem(acc, font_size)]
            IN  [action |-> IF lines # 0 THEN BackendCall(Scroll(lines))
                            ELSE Ignore,
                 state |-> st2]
      [] OTHER -> [action |-> Ignore, state |-> st]

\* ---------------------------------------------------- handle_mouse_wheel
\* Returns the action and the (possibly mutated) view state.
handle_mouse_wheel(st, font_size, unit, dy) ==
    CASE unit = "Line" ->
            LET lines == Signum(dy) * CeilUnits(Abs(dy))
            IN  [action |-> BackendCall(Scroll(lines)), state |-> st]
      [] unit = "Point" ->
            LET acc   == st.scroll_pixels - dy
                lines == TruncDiv(acc, font_size)
                st2   == [st EXCEPT !.scroll_pixels = FRem(acc, font_size)]
            IN  [action |-> IF lines # 0 THEN BackendCall(Scroll(lines))
                            ELSE Ignore,
                 state |-> st2]
      [] OTHER -> [action |-> Ignore, state |-> st]

\* the match with a pointer-button arm that starts a drag
ResolveEvent_button_drags(event, st, font_size, term_mode) ==
    CASE event.type \in {"Text", "Key"} ->
            [action |-> handle_keyboard_event(event, term_mode), state |-> st]
      [] event.type = "MouseWheel" ->
            handle_mouse_wheel(st, font_size, event.unit, event.dy)
      [] event.type = "PointerButton" ->
            [action |-> Ignore, state |-> [st EXCEPT !.is_dragged = TRUE]]
      [] OTHER -> [action |-> Ignore, state |-> st]

\* one iteration of the match in the for loop of process_input
ResolveEvent(event, st, font_size, term_mode) ==
    CASE event.type \in {"Text", "Key"} ->
            [action |-> handle_keyboard_event(event, term_mode), state |-> st]
      [] event.type = "MouseWheel" ->
            handle_mouse_wheel(st, font_size, event.unit, event.dy)
      [] OTHER -> [action |-> Ignore, state |-> st]

\* Dispatch forwarding a BackendCall twice
Dispatch_twice(log, input_action) ==
    IF input_action.kind = "BackendCall"
    THEN Append(Append(log, input_action.cmd), input_action.cmd)
    ELSE log

\* the match on input_action: forward a BackendCall to the backend
Dispatch(log, input_action) ==
    IF input_action.kind = "BackendCall" THEN Append(log, input_action.cmd)
    ELSE log

\* ----------------------------------------------------------- rendering
\* TermTheme::get_color: logical colour identifier -> concrete colour
get_color(id) ==
    CASE id = "Foreground" -> "#d8d8d8"
      [] id = "Background" -> "#181818"
      [] id = "Red" -> "#ab4642"
      [] id = "Blue" -> "#7cafc2"
      [] id = "Black" -> "#000000"

Point(line, column) ==
    [line |-> line, column |-> column]

\* SelectionRange::contains as used by selectable_range.map_or(false, ..)
RangeContains(r, p) ==
    /\ r # None
    /\ r[1].start.line <= p.line
    /\ r[1].end.line >= p.line
    /\ (r[1].start.column <= p.column \/ r[1].start.line # p.line)
    /\ (r[1].end.column >= p.column \/ r[1].end.line # p.line)

\* grid.display_iter(): the cells of the visible row with their points; the
\* visible row of a viewport scrolled back by display_offset is line
\* -display_offset
display_iter(c) ==
    [k \in 1..Len(c.grid) |->
        [point |-> Point(0 - c.display_offset, k - 1), cell |-> c.grid[k]]]

\* a swap per reason: inverse and selection together cancel out
SwapColors_twice(inverse, selected) ==
    inverse # selected

\* a swap for inverse video only: the selection is not highlighted
SwapColors_inverse_only(inverse, selected) ==
    inverse

\* the condition of the if that guards std::mem::swap(&mut fg, &mut bg)
SwapColors(inverse, selected) ==
    inverse \/ selected

\* the loop body skipping a blank cell altogether, fill included
DrawCell_blank_skipped(indexed, c, origin, font_size, font_type) ==
    LET x == origin.x + indexed.point.column * font_size.width
        y == origin.y
               + (indexed.point.line + c.display_offset) * font_size.height
        fg0 == get_color(indexed.cell.fg)
        bg0 == get_color(indexed.cell.bg)
        swap == SwapColors("INVERSE" \in indexed.cell.flags,
                           RangeContains(c.selectable_range, indexed.point))
        fg == IF swap THEN bg0 ELSE fg0
        bg == IF swap THEN fg0 ELSE bg0
        rectPrim == [prim |-> "rect", min |-> Point(y, x),
                     size |-> font_size, fill |-> bg]
        textPrim == [prim |-> "text",
                     pos2 |-> Point(2 * y + font_size.height,
                                    2 * x + font_size.width),
                     c |-> indexed.cell.c, font |-> font_type, color |-> fg]
    IN  IF indexed.cell.c # 32 /\ indexed.cell.c # 9
        THEN << rectPrim, textPrim >>
        ELSE << >>

\* the body of the for loop of show for one indexed cell; text positions are
\* kept doubled (2x + width, 2y + height) so that the cell centre is integral
DrawCell(indexed, c, origin, font_size, font_type) ==
    LET x == origin.x + indexed.point.column * font_size.width
        y == origin.y
               + (indexed.point.line + c.display_offset) * font_size.height
        fg0 == get_color(indexed.cell.fg)
        bg0 == get_color(indexed.cell.bg)
        swap == SwapColors("INVERSE" \in indexed.cell.flags,
                           RangeContains(c.selectable_range, indexed.point))
        fg == IF swap THEN bg0 ELSE fg0
        bg == IF swap THEN fg0 ELSE bg0
        rectPrim == [prim |-> "rect", min |-> Point(y, x),
                     size |-> font_size, fill |-> bg]
        textPrim == [prim |-> "text",
                     pos2 |-> Point(2 * y + font_size.height,
                                    2 * x + font_size.width),
                     c |-> indexed.cell.c, font |-> font_type, color |-> fg]
    IN  IF indexed.cell.c # 32 /\ indexed.cell.c # 9
        THEN << rectPrim, textPrim >>
        ELSE << rectPrim >>

RECURSIVE RenderFrom(_, _, _, _, _)
RenderFrom(k, c, origin, font_size, font_type) ==
    IF k > Len(c.grid) THEN << >>
    ELSE DrawCell(display_iter(c)[k], c, origin, font_size, font_type)
           \o RenderFrom(k + 1, c, origin, font_size, font_type)

\* ------------------------------------------------------------- the state
VARIABLES
    pc,            \* position inside TerminalView::ui
    mem,           \* egui memory: the TerminalViewState stored under widget_id
    state,         \* the local `state` of ui
    rect,          \* layout.rect
    font,          \* self.font
    clicked,       \* layout.clicked()
    hasFocus,      \* layout.has_focus()
    prevFocus,     \* has_focus() of the previous frame
    events,        \* i.events of this frame
    i,             \* index of the next event of the for loop
    input_action,  \* the local `input_action` of the last iteration
    cmds,          \* commands handed to backend.process_command this frame
    terminal_mode,     \* backend.last_content().terminal_mode
    content,       \* the local `content` of show (backend.sync())
    drawn,         \* primitives handed to the painter this frame
    wheelLog,      \* history: pixel wheel events handled since construction
    tracked        \* wheelLog is the complete history

vars ==
    << pc, mem, state, rect, font, clicked, hasFocus, prevFocus, events, i,
       input_action, cmds, terminal_mode, content, drawn, wheelLog,
       tracked >>

\* ----------------------------------------------------------- the inputs
Modes ==
    { {}, {"APP_CURSOR"} }

TextEvent(t) ==
    [type |-> "Text", text |-> t]

KeyEvent(k, p, m) ==
    [type |-> "Key", key |-> k, pressed |-> p, modifiers |-> m]

WheelEvent(u, dy) ==
    [type |-> "MouseWheel", unit |-> u, dy |-> dy]

OtherEvent(t) ==
    [type |-> t]

RECURSIVE SeqsUpTo(_, _)
SeqsUpTo(S, n) ==
    IF n = 0 THEN { << >> }
    ELSE LET shorter == SeqsUpTo(S, n - 1)
         IN  shorter \cup
               { Append(q, e) : q \in { r \in shorter : Len(r) = n - 1 }, e \in S }

Font(size, w, h) ==
    [size |-> size, measure |-> [width |-> w, height |-> h]]

Rect(x, y, w, h) ==
    [min |-> [x |-> x, y |-> y], size |-> [width |-> w, height |-> h]]

Cell(c, fg, bg, flags) ==
    [c |-> c, fg |-> fg, bg |-> bg, flags |-> flags]

Content(grid, offset, sel, mode) ==
    [grid |-> grid, display_offset |-> offset, selectable_range |-> sel,
     terminal_mode |-> mode]

BlankContent ==
    Content(<< Cell(32, "Foreground", "Background", {}) >>, 0, None, {})

\* --------------------------------------------------------------- actions
InitWith(trk) ==
    /\ pc = "new"
    /\ mem = None
    /\ state = DefaultState
    /\ rect = Rect(0, 0, 0, 0)
    /\ font = Font(2, 1, 2)
    /\ clicked = FALSE
    /\ hasFocus = FALSE
    /\ prevFocus = FALSE
    /\ events = << >>
    /\ i = 1
    /\ input_action = Ignore
    /\ cmds = << >>
    /\ terminal_mode = {}
    /\ content = BlankContent
    /\ drawn = << >>
    /\ wheelLog = << >>
    /\ tracked = trk

\* ui starting every frame from a default view state instead of the stored one
ui_begin_fresh_state(Queues, Fonts, Rects) ==
    /\ pc \in {"new", "idle"}
    /\ \E q \in Queues, f \in Fonts, r \in Rects, c \in BOOLEAN, hf \in BOOLEAN :
          /\ events' = q
          /\ font' = f
          /\ rect' = r
          /\ clicked' = c
          /\ hasFocus' = hf
    /\ prevFocus' = hasFocus
    /\ state' = DefaultState
    /\ i' = 1
    /\ input_action' = Ignore
    /\ cmds' = << >>
    /\ drawn' = << >>
    /\ pc' = "focus"
    /\ UNCHANGED << mem, terminal_mode, content, wheelLog, tracked >>

\* ui, up to the call chain: allocate_painter and the read of the view state
ui_begin(Queues, Fonts, Rects) ==
    /\ pc \in {"new", "idle"}
    /\ \E q \in Queues, f \in Fonts, r \in Rects, c \in BOOLEAN, hf \in BOOLEAN :
          /\ events' = q
          /\ font' = f
          /\ rect' = r
          /\ clicked' = c
          /\ hasFocus' = hf
    /\ prevFocus' = hasFocus
    /\ state' = unwrap_or_default(mem)
    /\ i' = 1
    /\ input_action' = Ignore
    /\ cmds' = << >>
    /\ drawn' = << >>
    /\ pc' = "focus"
    /\ UNCHANGED << mem, terminal_mode, content, wheelLog, tracked >>

focus ==
    /\ pc = "focus"
    /\ hasFocus' = (IF clicked THEN TRUE ELSE hasFocus)
    /\ pc' = "resize"
    /\ UNCHANGED << mem, state, rect, font, clicked, prevFocus, events, i,
                    input_action, cmds, terminal_mode, content, drawn,
                    wheelLog, tracked >>

\* Size::from(layout.rect.size())
SizeFrom(v) ==
    [width |-> v.width, height |-> v.height]

\* resize issuing its command only while no view state is stored yet
resize_first_frame_only ==
    /\ pc = "resize"
    /\ cmds' = IF mem = None
               THEN Append(cmds, Resize(SizeFrom(rect.size), font.measure))
               ELSE cmds
    /\ pc' = "input"
    /\ UNCHANGED << mem, state, rect, font, clicked, hasFocus, prevFocus,
                    events, i, input_action, terminal_mode, content, drawn,
                    wheelLog, tracked >>

resize ==
    /\ pc = "resize"
    /\ cmds' = Append(cmds, Resize(SizeFrom(rect.size), font.measure))
    /\ pc' = "input"
    /\ UNCHANGED << mem, state, rect, font, clicked, hasFocus, prevFocus,
                    events, i, input_action, terminal_mode, content, drawn,
                    wheelLog, tracked >>

\* process_input without the focus check
FocusGuard_none(has_focus) ==
    TRUE

\* the early return of process_input
FocusGuard(has_focus) ==
    has_focus

\* a loop that stops after its first iteration
LoopDone_first(k, evs) ==
    k > 1 \/ k > Len(evs)

\* the for loop has consumed i.events
LoopDone(k, evs) ==
    k > Len(evs)

\* history of the pixel wheel events, kept while it fits
LogWheel(event, st2) ==
    IF event.type = "MouseWheel" /\ event.unit = "Point" /\ tracked
    THEN IF Len(wheelLog) < MaxWheelLog
         THEN /\ wheelLog' = Append(wheelLog,
                     [dy |-> event.dy, font_size |-> font.size,
                      lines |-> IF st2.action.kind = "BackendCall"
                                THEN st2.action.cmd.lines ELSE 0,
                      emitted |-> st2.action.kind = "BackendCall"])
              /\ tracked' = tracked
         ELSE /\ wheelLog' = << >>
              /\ tracked' = FALSE
    ELSE UNCHANGED << wheelLog, tracked >>

process_input_event ==
    /\ pc = "input"
    /\ FocusGuard(hasFocus)
    /\ ~LoopDone(i, events)
    /\ LET r == ResolveEvent(events[i], state, font.size,
                             terminal_mode)
       IN  /\ input_action' = r.action
           /\ state' = r.state
           /\ cmds' = Dispatch(cmds, r.action)
           /\ LogWheel(events[i], r)
    /\ i' = i + 1
    /\ UNCHANGED << pc, mem, rect, font, clicked, hasFocus, prevFocus, events,
                    terminal_mode, content, drawn >>

process_input_return ==
    /\ pc = "input"
    /\ (~FocusGuard(hasFocus) \/ LoopDone(i, events))
    /\ pc' = "show"
    /\ UNCHANGED << mem, state, rect, font, clicked, hasFocus, prevFocus,
                    events, i, input_action, cmds, terminal_mode, content,
                    drawn, wheelLog, tracked >>

\* show: backend.sync() returns the current content, then the grid is drawn
show(Contents) ==
    /\ pc = "show"
    /\ \E c \in Contents :
          /\ content' = c
          /\ terminal_mode' = c.terminal_mode
          /\ drawn' = RenderFrom(1, c, rect.min, font.measure, font.size)
    /\ pc' = "store"
    /\ UNCHANGED << mem, state, rect, font, clicked, hasFocus, prevFocus,
                    events, i, input_action, cmds, wheelLog, tracked >>

\* ui.memory_mut(|m| m.data.insert_temp(widget_id, state)); ui returns and its
\* locals, the consumed TerminalView and the frame's events are gone
ui_end ==
    /\ pc = "store"
    /\ mem' = Some(state)
    /\ pc' = "idle"
    /\ state' = DefaultState
    /\ rect' = Rect(0, 0, 0, 0)
    /\ font' = Font(2, 1, 2)
    /\ clicked' = FALSE
    /\ events' = << >>
    /\ i' = 1
    /\ input_action' = Ignore
    /\ cmds' = << >>
    /\ content' = BlankContent
    /\ drawn' = << >>
    /\ UNCHANGED << hasFocus, prevFocus, terminal_mode, wheelLog, tracked >>

\* ------------------------------------------------------ specifications
\* Spec: the input pipeline under a mixed event alphabet
EventsMain ==
    { TextEvent(<< 233, 8364 >>),
      KeyEvent("ArrowUp", TRUE, {}), KeyEvent("ArrowUp", FALSE, {}),
      KeyEvent("C", TRUE, {"ctrl"}), KeyEvent("F13", TRUE, {}),
      WheelEvent("Line", 0), WheelEvent("Line", -3),
      WheelEvent("Point", 1), WheelEvent("Point", -5),
      WheelEvent("Page", 2),
      OtherEvent("PointerMoved") }

FontsMain ==
    { Font(2, 1, 2), Font(3, 2, 3) }

RectsMain ==
    { Rect(0, 0, 8, 4), Rect(1, 2, 6, 6) }

ContentsMain ==
    { Content(<< Cell(65, "Foreground", "Background", {}) >>, 0, None, m) :
        m \in Modes }

Init ==
    InitWith(FALSE)

Next ==
    \/ ui_begin(SeqsUpTo(EventsMain, MaxEvents), FontsMain, RectsMain)
    \/ focus
    \/ resize
    \/ process_input_event
    \/ process_input_return
    \/ show(ContentsMain)
    \/ ui_end

Spec ==
    Init /\ [][Next]_vars

\* SpecScroll: the scroll accumulator under pixel wheel events, one font
EventsScroll ==
    { WheelEvent("Point", d) : d \in {-3, 0, 1, 2, 6} }
      \cup { KeyEvent("ArrowUp", FALSE, {}) }

FontsScroll ==
    { Font(3, 2, 3) }

RectsScroll ==
    { Rect(0, 0, 8, 6) }

InitScroll ==
    InitWith(TRUE)

NextScroll ==
    \/ ui_begin(SeqsUpTo(EventsScroll, MaxEvents), FontsScroll, RectsScroll)
    \/ focus
    \/ resize
    \/ process_input_event
    \/ process_input_return
    \/ show(ContentsMain)
    \/ ui_end

SpecScroll ==
    InitScroll /\ [][NextScroll]_vars

\* SpecRender: the grid renderer under every small grid snapshot
CellsRender ==
    { Cell(ch, col[1], col[2], fl) :
        ch \in {65, 32, 9},
        col \in { << "Red", "Black" >>, << "Foreground", "Blue" >> },
        fl \in { {}, {"INVERSE"} } }

GridsRender ==
    SeqsUpTo(CellsRender, MaxCols) \ { << >> }

RangesRender(offset) ==
    { None } \cup
    { Some([start |-> Point(0 - offset, a), end |-> Point(0 - offset, b)]) :
        a \in 0..(MaxCols - 1), b \in 0..(MaxCols - 1) }

ContentsRender ==
    UNION { { Content(g, off, r, {}) : g \in GridsRender,
                                       r \in RangesRender(off) } :
            off \in {0, 1} }

EventsRender ==
    { << >>, << TextEvent(<< 97 >>) >> }

NextRender ==
    \/ ui_begin(EventsRender, FontsMain, RectsMain)
    \/ focus
    \/ resize
    \/ process_input_event
    \/ process_input_return
    \/ show(ContentsRender)
    \/ ui_end

SpecRender ==
    Init /\ [][NextRender]_vars

\* SpecWheel: the three wheel units and the events of no concern to the
\* terminal, under two fonts
EventsWheel ==
    { WheelEvent("Line", 2), WheelEvent("Line", -3),
      WheelEvent("Point", 3), WheelEvent("Point", 1), WheelEvent("Point", -4),
      WheelEvent("Page", 2), WheelEvent("Page", 0), WheelEvent("Page", -7),
      OtherEvent("PointerButton"), OtherEvent("WindowFocused") }

NextWheel ==
    \/ ui_begin(SeqsUpTo(EventsWheel, MaxEvents), FontsMain, RectsScroll)
    \/ focus
    \/ resize
    \/ process_input_event
    \/ process_input_return
    \/ show(ContentsMain)
    \/ ui_end

SpecWheel ==
    Init /\ [][NextWheel]_vars

\* ================================================================ claims
\* auxiliary notions for the properties
IsResize(c) ==
    c.cmd = "Resize"

IsInputCmd(c) ==
    c.cmd # "Resize"

\* the commands of this frame that stem from input events
InputCmds ==
    SelectSeq(cmds, IsInputCmd)

\* the frame is past its resize step
AfterResize ==
    pc \in {"input", "show", "store"}

\* the frame is past its event loop
AfterInput ==
    pc \in {"show", "store"}

\* at least one event of this frame has gone through the loop body
Handled ==
    AfterResize /\ i > 1

LastEvent ==
    events[i - 1]

IsKeyRelease(e) ==
    e.type = "Key" /\ ~e.pressed

IsZeroLineWheel(e) ==
    e.type = "MouseWheel" /\ e.unit = "Line" /\ e.dy = 0

\* the number of events among the first k of seq that are not key releases
RECURSIVE CountNotRelease(_, _)
CountNotRelease(seq, k) ==
    IF k = 0 THEN 0
    ELSE CountNotRelease(seq, k - 1)
           + (IF IsKeyRelease(seq[k]) THEN 0 ELSE 1)

\* C2: a line-granular wheel event whose delta.y is exactly 0 resolves to
\* Ignore, and no Scroll(0) reaches the backend.
C2_ZeroLineDeltaIgnored ==
    /\ (Handled /\ IsZeroLineWheel(LastEvent)) => input_action = Ignore
    /\ \A k \in 1..Len(cmds) : cmds[k].cmd = "Scroll" => cmds[k].lines # 0

\* C3: a key event with pressed = false resolves to Ignore for every key,
\* modifier set and terminal mode, and issues no backend command: the input
\* commands of a frame never outnumber the handled events that are not key
\* releases, so a press/release pair of a bound key causes at most one Write.
C3_KeyReleaseIgnored ==
    /\ (Handled /\ IsKeyRelease(LastEvent)) => input_action = Ignore
    /\ AfterResize =>
         Len(InputCmds) <= CountNotRelease(events, i - 1)

C3_Witness ==
    /\ pc = "show"
    /\ hasFocus
    /\ events = << KeyEvent("ArrowUp", TRUE, {}), KeyEvent("ArrowUp", FALSE, {}) >>
    /\ i = 3
    /\ "APP_CURSOR" \in terminal_mode
    /\ input_action = Ignore
    /\ InputCmds = << Write(<< 27, 79, 65 >>) >>

\* C4: a text event handled while focused resolves to exactly one Write of
\* the UTF-8 bytes of its text, whatever the terminal mode, and that Write is
\* the one command the event adds to the backend's commands.
C4_TextWrittenVerbatim ==
    (Handled /\ LastEvent.type = "Text") =>
        /\ input_action.kind = "BackendCall"
        /\ input_action.cmd.cmd = "Write"
        /\ input_action.cmd.bytes = AsBytes(LastEvent.text)
        /\ LastEvent.text = << 233, 8364 >> =>
              input_action.cmd.bytes = << 195, 169, 226, 130, 172 >>
        /\ cmds[Len(cmds)] = input_action.cmd
        /\ Len(InputCmds) >= 1

C4_Witness ==
    /\ Handled
    /\ "APP_CURSOR" \in terminal_mode
    /\ LastEvent = TextEvent(<< 233, 8364 >>)
    /\ cmds[Len(cmds)] = Write(<< 195, 169, 226, 130, 172 >>)

\* C5: in a frame in which the widget has no focus, no backend command stems
\* from the input events, whatever the queue holds, also right after a
\* focused frame; no event is consumed and the view state is not touched.
C5_UnfocusedFrameSilent ==
    (AfterResize /\ ~hasFocus) =>
        /\ InputCmds = << >>
        /\ i = 1
        /\ state = unwrap_or_default(mem)

C5_Witness ==
    /\ pc = "store"
    /\ ~hasFocus
    /\ prevFocus
    /\ Len(events) >= 2
    /\ events[1].type = "Text"
    /\ events[2].type = "MouseWheel"
    /\ Len(cmds) = 1

\* C6: every frame issues exactly one Resize, carrying the widget's current
\* pixel size and the current font metrics, with or without focus or input.
C6_OneResizePerFrame ==
    AfterResize =>
        SelectSeq(cmds, IsResize) =
            << [cmd |-> "Resize",
                size |-> [width |-> rect.size.width,
                          height |-> rect.size.height],
                font_measure |-> font.measure] >>

C6_Witness ==
    /\ pc = "store"
    /\ mem # None
    /\ ~hasFocus
    /\ events = << >>
    /\ rect = Rect(1, 2, 6, 6)
    /\ font = Font(3, 2, 3)
    /\ cmds = << [cmd |-> "Resize", size |-> [width |-> 6, height |-> 6],
                  font_measure |-> [width |-> 2, height |-> 3]] >>

\* C9: every handled event yields one resolved action, BackendCall or Ignore,
\* and at most one backend command; the input commands of a frame never
\* outnumber the events handled so far, nor the events of the queue.
C9_AtMostOneCommandPerEvent ==
    /\ input_action.kind \in {"BackendCall", "Ignore"}
    /\ AfterResize =>
          /\ Len(InputCmds) <= i - 1
          /\ i - 1 <= Len(events)

C9_Witness ==
    /\ pc = "store"
    /\ hasFocus
    /\ Len(events) >= 2
    /\ i - 1 = Len(events)
    /\ Len(InputCmds) = Len(events)

\* the commands the events evs produce when resolved one after the other from
\* view state st
RECURSIVE ImageOf(_, _, _, _)
ImageOf(evs, st, fsize, mode) ==
    IF evs = << >> THEN << >>
    ELSE LET r == ResolveEvent(Head(evs), st, fsize, mode)
         IN  (IF r.action.kind = "BackendCall" THEN << r.action.cmd >>
              ELSE << >>)
               \o ImageOf(Tail(evs), r.state, fsize, mode)

\* C10: while focused, the queue is processed completely and in arrival
\* order: at every point of the frame the input commands received by the
\* backend are the in-order image of the events handled so far, starting
\* from the stored view state with nothing carried over from the frame
\* before, and once the loop is left every event has been handled.
C10_DrainedInOrder ==
    (AfterResize /\ hasFocus) =>
        /\ pc \in {"input", "show"} =>
              InputCmds = ImageOf(SubSeq(events, 1, i - 1),
                                  unwrap_or_default(mem), font.size,
                                  terminal_mode)
        /\ AfterInput => i = Len(events) + 1

C10_Witness ==
    /\ pc = "show"
    /\ hasFocus
    /\ prevFocus
    /\ events = << WheelEvent("Line", -3), TextEvent(<< 233, 8364 >>) >>
    /\ InputCmds = << Scroll(-2), Write(<< 195, 169, 226, 130, 172 >>) >>

\* ------------------------------------------------ the scroll accumulator
RECURSIVE SumDy(_)
SumDy(log) ==
    IF log = << >> THEN 0 ELSE Head(log).dy + SumDy(Tail(log))

WasEmitted(entry) ==
    entry.emitted

\* the Scroll commands the logged pixel events produced
EmittedScrolls ==
    SelectSeq(wheelLog, WasEmitted)

\* wheelLog is a sequence of pixel events handled from remainder 0 under one
\* cell height whose deltas sum to exactly that height
SumsToOneCell ==
    /\ tracked
    /\ wheelLog # << >>
    /\ \A k \in 1..Len(wheelLog) :
          wheelLog[k].font_size = wheelLog[1].font_size
    /\ SumDy(wheelLog) = wheelLog[1].font_size

ExactlyOneUnitScroll ==
    /\ Len(EmittedScrolls) = 1
    /\ EmittedScrolls[1].lines \in {1, -1}

IsRectPrim(p) ==
    p.prim = "rect"

IsTextPrim(p) ==
    p.prim = "text"

HasGlyph(indexed) ==
    indexed.cell.c # 32 /\ indexed.cell.c # 9

\* the background fills and the glyph draws of this frame, in paint order
DrawnRects ==
    SelectSeq(drawn, IsRectPrim)

DrawnTexts ==
    SelectSeq(drawn, IsTextPrim)

\* the cells that carry a glyph, in iteration order
GlyphCells ==
    SelectSeq(display_iter(content), HasGlyph)

IsInverse(indexed) ==
    "INVERSE" \in indexed.cell.flags

IsSelected(indexed) ==
    /\ content.selectable_range # None
    /\ LET r == content.selectable_range[1]
       IN  /\ r.start.line <= indexed.point.line
           /\ indexed.point.line <= r.end.line
           /\ (indexed.point.line = r.start.line =>
                 r.start.column <= indexed.point.column)
           /\ (indexed.point.line = r.end.line =>
                 indexed.point.column <= r.end.column)

Rendered ==
    pc = "store"

\* C7: a cell is drawn with foreground and background swapped when it has
\* the inverse flag or lies in the selection, once when both hold, and with
\* its own colours when neither holds: the fill of every cell and the colour
\* of every glyph follow that rule.
C7_SwapOnInverseOrSelection ==
    Rendered =>
        /\ Len(DrawnRects) = Len(content.grid)
        /\ Len(DrawnTexts) = Len(GlyphCells)
        /\ \A k \in 1..Len(content.grid) :
              LET cell == display_iter(content)[k]
              IN  DrawnRects[k].fill =
                     IF IsInverse(cell) \/ IsSelected(cell)
                     THEN get_color(cell.cell.fg)
                     ELSE get_color(cell.cell.bg)
        /\ \A j \in 1..Len(GlyphCells) :
              DrawnTexts[j].color =
                 IF IsInverse(GlyphCells[j]) \/ IsSelected(GlyphCells[j])
                 THEN get_color(GlyphCells[j].cell.bg)
                 ELSE get_color(GlyphCells[j].cell.fg)

C7_Witness ==
    /\ Rendered
    /\ content.grid = << Cell(65, "Red", "Black", {"INVERSE"}),
                         Cell(65, "Red", "Black", {}) >>
    /\ content.display_offset = 1
    /\ content.selectable_range =
          Some([start |-> Point(-1, 0), end |-> Point(-1, 0)])
    /\ DrawnRects[1].fill = "#ab4642"
    /\ DrawnTexts[1].color = "#000000"
    /\ DrawnRects[2].fill = "#000000"
    /\ DrawnTexts[2].color = "#ab4642"

\* C8 as stated: a swap is triggered exactly when inverse flag XOR selection
\* membership holds; a cell with both or with neither is drawn unswapped.
C8_SwapOnXor ==
    Rendered =>
        \A k \in 1..Len(content.grid) :
           LET cell == display_iter(content)[k]
           IN  DrawnRects[k].fill =
                  IF IsInverse(cell) # IsSelected(cell)
                  THEN get_color(cell.cell.fg)
                  ELSE get_color(cell.cell.bg)

\* C8 amended: a cell for which exactly one of inverse flag and selection
\* membership holds is filled with its foreground colour, a cell for which
\* both hold is filled with its foreground colour as well (one swap), and a
\* cell for which neither holds is filled with its background colour.
C8_SwapOnEitherOrBoth ==
    Rendered =>
        \A k \in 1..Len(content.grid) :
           LET cell == display_iter(content)[k]
               fill == DrawnRects[k].fill
           IN  /\ (IsInverse(cell) # IsSelected(cell)) =>
                     fill = get_color(cell.cell.fg)
               /\ (IsInverse(cell) /\ IsSelected(cell)) =>
                     fill = get_color(cell.cell.fg)
               /\ (~IsInverse(cell) /\ ~IsSelected(cell)) =>
                     fill = get_color(cell.cell.bg)

C8_Witness ==
    /\ Rendered
    /\ Len(content.grid) = 2
    /\ content.selectable_range =
          Some([start |-> Point(0, 0), end |-> Point(0, 1)])
    /\ content.display_offset = 0
    /\ content.grid[1] = Cell(32, "Foreground", "Blue", {"INVERSE"})
    /\ content.grid[2] = Cell(9, "Foreground", "Blue", {})
    /\ DrawnRects[1].fill = "#d8d8d8"
    /\ DrawnRects[2].fill = "#d8d8d8"

\* ------------------------------------------------------- the wheel units
\* the loop of process_input is about to handle events[i]
AboutToHandle ==
    pc = "input" /\ hasFocus /\ i <= Len(events)

IsPageWheel(e) ==
    e.type = "MouseWheel" /\ e.unit = "Page"

\* C11: a page-granular wheel event resolves to Ignore for every delta and
\* every prior remainder: handling it sends no command and leaves the view
\* state, the scroll remainder included, as it was.
C11_PageWheelIgnored ==
    [][(AboutToHandle /\ IsPageWheel(events[i])) =>
          /\ input_action' = Ignore
          /\ cmds' = cmds
          /\ state' = state
          /\ i' = i + 1]_vars

C11_Witness ==
    /\ Handled
    /\ hasFocus
    /\ LastEvent = WheelEvent("Page", -7)
    /\ state.scroll_pixels = -2
    /\ input_action = Ignore
    /\ Len(cmds) = 1

\* ------------------------------------------------- fills and glyph draws
\* the left edge of the k-th cell of the visible row
CellX(k) ==
    rect.min.x + (k - 1) * font.measure.width

\* the fills painted at the k-th cell, and the glyphs painted at its centre
FillsAt(k) ==
    { n \in 1..Len(drawn) :
        drawn[n].prim = "rect" /\ drawn[n].min.column = CellX(k) }

GlyphsAt(k) ==
    { n \in 1..Len(drawn) :
        /\ drawn[n].prim = "text"
        /\ drawn[n].pos2.column = 2 * CellX(k) + font.measure.width }

\* two cells that differ at most in their character
SameLook(k, l) ==
    LET a == display_iter(content)[k]
        b == display_iter(content)[l]
    IN  /\ a.cell.fg = b.cell.fg
        /\ a.cell.bg = b.cell.bg
        /\ a.cell.flags = b.cell.flags
        /\ IsSelected(a) = IsSelected(b)

\* C12: every visible cell, blank or not, gets exactly one background fill;
\* a cell gets a glyph draw, of its own character, exactly when the character
\* is neither space nor tab; and two cells that differ only in their
\* character, drawn or blank, are filled with the same colour.
C12_FillEveryCellGlyphIfNotBlank ==
    Rendered =>
        /\ Len(DrawnRects) = Len(content.grid)
        /\ \A k \in 1..Len(content.grid) :
              /\ Cardinality(FillsAt(k)) = 1
              /\ Cardinality(GlyphsAt(k)) =
                    IF content.grid[k].c \in {32, 9} THEN 0 ELSE 1
              /\ \A n \in GlyphsAt(k) : drawn[n].c = content.grid[k].c
        /\ \A k, l \in 1..Len(content.grid) :
              SameLook(k, l) =>
                 \A m \in FillsAt(k), n \in FillsAt(l) :
                    drawn[m].fill = drawn[n].fill

C12_Witness ==
    /\ Rendered
    /\ content.grid = << Cell(65, "Red", "Black", {}),
                         Cell(32, "Red", "Black", {}) >>
    /\ content.selectable_range = None
    /\ Len(drawn) = 3
    /\ drawn[1].prim = "rect"
    /\ drawn[1].fill = "#000000"
    /\ drawn[2].prim = "text"
    /\ drawn[2].c = 65
    /\ drawn[2].color = "#ab4642"
    /\ drawn[3].prim = "rect"
    /\ drawn[3].fill = "#000000"

\* ------------------------------------------------- the order of a frame
\* the steps of ui in the order of its text
FrameOrder ==
    { << "new", "focus" >>, << "idle", "focus" >>, << "focus", "resize" >>,
      << "resize", "input" >>, << "input", "show" >>, << "show", "store" >>,
      << "store", "idle" >> }

\* C13: a frame reads the stored view state, settles focus, sends the Resize,
\* drains the events, renders and writes the view state back, in this order:
\* nothing is sent before the Resize, which is the first command of the frame
\* and its only Resize; nothing is drawn before the loop is left and nothing
\* is sent once the render has synced; the state written back at the end of
\* a frame is the one the next frame starts from.
C13_FrameStepsInOrder ==
    /\ [](pc \in {"focus", "resize"} =>
             cmds = << >> /\ state = unwrap_or_default(mem))
    /\ [](AfterResize =>
             /\ cmds # << >>
             /\ cmds[1].cmd = "Resize"
             /\ \A k \in 2..Len(cmds) : cmds[k].cmd # "Resize")
    /\ [](pc \in {"focus", "resize", "input", "show"} => drawn = << >>)
    /\ [][pc' # pc => << pc, pc' >> \in FrameOrder]_vars
    /\ [][pc = "show" => cmds' = cmds]_vars
    /\ [][pc = "store" => (mem' = Some(state))]_vars
    /\ [][pc # "store" => mem' = mem]_vars
    /\ [][(pc = "new" \/ pc = "idle") => (state' = unwrap_or_default(mem))]_vars

C13_Witness ==
    /\ pc = "focus"
    /\ mem # None
    /\ mem[1].scroll_pixels = -2
    /\ state.scroll_pixels = -2
    /\ prevFocus
    /\ cmds = << >>

\* --------------------------------------------- conservation of the wheel
\* the scroll remainder as it stands: the local state inside a frame, the
\* stored state between frames
CurrentRemainder ==
    IF pc \in {"new", "idle"} THEN unwrap_or_default(mem).scroll_pixels
    ELSE state.scroll_pixels

\* the pixels accounted for by the Scroll commands of the logged events
RECURSIVE SumScrolled(_)
SumScrolled(log) ==
    IF log = << >> THEN 0
    ELSE Head(log).lines * Head(log).font_size + SumScrolled(Tail(log))

\* the remainder accumulated by the k-th logged event before its division
AccumulatedAt(k) ==
    0 - SumDy(SubSeq(wheelLog, 1, k)) - SumScrolled(SubSeq(wheelLog, 1, k - 1))

\* C14: for every pixel wheel event the remainder first takes in -delta.y,
\* the line count is that sum divided by the cell height and truncated toward
\* zero, a Scroll is emitted exactly when the count is not zero, and the new
\* remainder is the sum less the whole lines; so after any sequence of pixel
\* events the remainder is smaller than a cell height and the scrolled lines
\* plus the remainder make up minus the sum of the deltas.
C14_WheelMotionConserved ==
    tracked =>
        /\ SumScrolled(wheelLog) + CurrentRemainder = 0 - SumDy(wheelLog)
        /\ wheelLog # << >> =>
              Abs(CurrentRemainder) < wheelLog[Len(wheelLog)].font_size
        /\ \A k \in 1..Len(wheelLog) :
              LET e == wheelLog[k]
                  acc == AccumulatedAt(k)
                  whole == e.lines * e.font_size
              IN  /\ e.emitted <=> e.lines # 0
                  /\ e.lines * acc >= 0
                  /\ Abs(whole) <= Abs(acc)
                  /\ Abs(acc - whole) < e.font_size

C14_Witness ==
    /\ tracked
    /\ pc = "idle"
    /\ Len(wheelLog) = 3
    /\ wheelLog[1].dy = 2 /\ wheelLog[1].lines = 0
    /\ wheelLog[2].dy = 2 /\ wheelLog[2].lines = -1
    /\ wheelLog[3].dy = -3 /\ wheelLog[3].lines = 0
    /\ CurrentRemainder = 2

\* ---------------------------------------------------------- key presses
IsKeyPress(e) ==
    e.type = "Key" /\ e.pressed

\* the loop is running or has just been left: terminal_mode is still the
\* mode the events of this frame were resolved under
ModeAsResolved ==
    pc \in {"input", "show"}

\* C15: a pressed key is resolved by the binding found for its key, its own
\* modifiers and the terminal mode of the backend at that moment: a Char
\* binding gives a Write of the UTF-8 encoding of the character, an Esc
\* binding a Write of the bytes of the sequence, no binding gives Ignore.
\* ArrowUp writes ESC O A in application-cursor mode and ESC [ A otherwise,
\* Ctrl+C writes byte 3, and F13, unbound, is ignored.
C15_KeyPressResolvedByBinding ==
    (Handled /\ ModeAsResolved /\ IsKeyPress(LastEvent)) =>
        LET b == get_action(LastEvent.key, LastEvent.modifiers, terminal_mode)
        IN  /\ b.binding = "Char" =>
                  input_action = BackendCall(Write(Utf8(b.c)))
            /\ b.binding = "Esc" =>
                  input_action = BackendCall(Write(AsBytes(b.seq)))
            /\ b.binding = "None" => input_action = Ignore
            /\ (LastEvent.key = "ArrowUp" /\ "APP_CURSOR" \in terminal_mode) =>
                  input_action = BackendCall(Write(<< 27, 79, 65 >>))
            /\ (LastEvent.key = "ArrowUp" /\ "APP_CURSOR" \notin terminal_mode)
                  => input_action = BackendCall(Write(<< 27, 91, 65 >>))
            /\ (LastEvent.key = "C" /\ LastEvent.modifiers = {"ctrl"}) =>
                  input_action = BackendCall(Write(<< 3 >>))
            /\ LastEvent.key = "F13" => input_action = Ignore

C15_Witness ==
    /\ pc = "show"
    /\ hasFocus
    /\ "APP_CURSOR" \in terminal_mode
    /\ events = << KeyEvent("C", TRUE, {"ctrl"}), KeyEvent("ArrowUp", TRUE, {}) >>
    /\ InputCmds = << Write(<< 3 >>), Write(<< 27, 79, 65 >>) >>

\* ------------------------------------------------------ wheel direction
IsWheel(e, unit) ==
    e.type = "MouseWheel" /\ e.unit = unit

\* a focused frame of two wheel events, one line-granular and one
\* pixel-granular, whose deltas have the same sign, started from remainder 0,
\* in which both events have produced a Scroll
LineAndPointSameWay ==
    /\ pc = "show"
    /\ hasFocus
    /\ unwrap_or_default(mem).scroll_pixels = 0
    /\ Len(events) = 2
    /\ \/ IsWheel(events[1], "Line") /\ IsWheel(events[2], "Point")
       \/ IsWheel(events[1], "Point") /\ IsWheel(events[2], "Line")
    /\ events[1].dy * events[2].dy > 0
    /\ Len(InputCmds) = 2

\* C16: wheel events whose delta.y have the same sign scroll the same way
\* whatever their unit: the Scroll of a line-granular event and the Scroll of
\* a pixel-granular event that completes a line from remainder 0 have line
\* counts of the same sign.
C16_WheelDirectionConsistent ==
    LineAndPointSameWay =>
        InputCmds[1].lines * InputCmds[2].lines > 0

\* ------------------------------------------------------- the other events
IsOtherKind(e) ==
    e.type \notin {"Text", "Key", "MouseWheel"}

\* C17: an event that is neither text, key nor mouse wheel (pointer button,
\* window focus, any other kind) resolves to Ignore: handling it sends no
\* command, leaves the view state as it was, and the loop goes on to the
\* next event of the queue.
C17_OtherEventsIgnored ==
    [][(AboutToHandle /\ IsOtherKind(events[i])) =>
          /\ input_action' = Ignore
          /\ cmds' = cmds
          /\ state' = state
          /\ i' = i + 1
          /\ pc' = "input"]_vars

C17_Witness ==
    /\ pc = "show"
    /\ hasFocus
    /\ events = << OtherEvent("PointerButton"), WheelEvent("Line", 2) >>
    /\ state = unwrap_or_default(mem)
    /\ state.scroll_pixels = 1
    /\ InputCmds = << Scroll(1) >>

\* -------------------------------------------- what changes the view state
\* st has the default drag flag, focus flag and modifiers
OtherFieldsDefault(st) ==
    /\ st.is_dragged = FALSE
    /\ st.is_focused = FALSE
    /\ st.keyboard_modifiers = {}

\* the stored view state as a frame reads it
Stored ==
    unwrap_or_default(mem)

\* the step runs inside a frame, between the read and the write of the state
InFrame ==
    pc \in {"focus", "resize", "input", "show"}

\* C18: the view state changes only when a pixel wheel event is handled
\* while the widget has focus, and only in its scroll remainder: every other
\* event, the resize and the render leave it alone, a frame without focus
\* stores what it read, and is_dragged, is_focused and keyboard_modifiers
\* keep their defaults for ever.
C18_OnlyPixelWheelChangesState ==
    /\ [](OtherFieldsDefault(state) /\ OtherFieldsDefault(Stored))
    /\ []((AfterResize /\ ~hasFocus) => state = Stored)
    /\ [][(InFrame /\ state' # state) =>
             /\ AboutToHandle
             /\ IsWheel(events[i], "Point")
             /\ state' = [state EXCEPT !.scroll_pixels = state'.scroll_pixels]
         ]_vars
    /\ [][(unwrap_or_default(mem') # Stored) =>
             /\ pc = "store"
             /\ hasFocus
             /\ \E k \in 1..Len(events) : IsWheel(events[k], "Point")
             /\ unwrap_or_default(mem') =
                   [Stored EXCEPT !.scroll_pixels = state.scroll_pixels]
         ]_vars

C18_Witness ==
    /\ pc = "store"
    /\ hasFocus
    /\ events = << KeyEvent("ArrowUp", TRUE, {}), WheelEvent("Point", 1) >>
    /\ Stored.scroll_pixels = 1
    /\ state.scroll_pixels = 0
    /\ OtherFieldsDefault(state)

====
